---- MODULE Spec2Model ----
(***************************************************************************)
(* Model of pilib::DistributedImageBase / pilib::DistributedImage<pixel_t> *)
(* (src/pilib/distributedimage.h): the storage handle of a distributed     *)
(* image, its two rotating temporary files, the block instructions it      *)
(* emits and the whole-image transfers readTo / setData.                   *)
(*                                                                         *)
(* File names are sequences of one-character strings, so that endsWith is  *)
(* computed on the characters of the name.  Member functions are operators *)
(* on a record of the object's fields; every action installs the record    *)
(* the member function returns.                                            *)
(***************************************************************************)
EXTENDS Integers, Sequences, FiniteSets, TLC

VARIABLES
    dims,            \* Vec3c dims
    name,            \* string name
    dataTypeStr,     \* string dataTypeStr
    readSource,      \* string readSource
    writeTarget,     \* string writeTarget
    tempFilename1,   \* string tempFilename1
    tempFilename2,   \* string tempFilename2
    isNewImage,      \* bool isNewImage
    disk,            \* contents of the files the codecs read and write
    inflight,        \* block instructions handed to workers and not yet executed
    pc,              \* position of the coordinating caller in its generation
    ctorSource,      \* sourceFilename the constructor was called with
    afterSetData,    \* whether the operation before the last one was setData
    lastOp,          \* the operation called last
    ret              \* what the last operation returned or transferred

vars == <<dims, name, dataTypeStr, readSource, writeTarget, tempFilename1,
          tempFilename2, isNewImage, disk, inflight, pc, ctorSource,
          afterSetData, lastOp, ret>>

(***************************************************************************)
(* Bounds                                                                  *)
(***************************************************************************)
\* largest pixel count of an image
MaxPixels == 2
\* largest number of block instructions in flight at once
MaxInFlight == 2

(***************************************************************************)
(* Strings                                                                 *)
(***************************************************************************)
Empty == <<>>
RawExt == <<".", "r", "a", "w">>

\* itl2::endsWith(str, end)
endsWith(str, end) ==
    /\ Len(str) >= Len(end)
    /\ SubSeq(str, Len(str) - Len(end) + 1, Len(str)) = end

ImgName == <<"i", "m", "g">>
RawSource == <<"s", ".", "r", "a", "w">>
SeqSource == <<"s", "e", "q">>
\* a directory whose name ends with "raw" but not with ".raw"
SeqSourceRaw == <<"s", "r", "a", "w">>
Sources == {RawSource, SeqSource, SeqSourceRaw}
OutRaw == <<"o", ".", "r", "a", "w">>
OutSeq == <<"o">>
OutFiles == {OutRaw, OutSeq}
\* const string* outputFile = nullptr
Null == <<"nullptr">>

(***************************************************************************)
(* Images (itl2::Image<pixel_t>): dimensions and pixels in memory order    *)
(***************************************************************************)
Dims == {v \in (1..MaxPixels) \X (1..MaxPixels) \X (1..MaxPixels) :
            v[1] * v[2] * v[3] <= MaxPixels}
\* two pixel patterns per size
Seeds == {1, 2}

Count(v) == v[1] * v[2] * v[3]

Image(v, seed) == [dims |-> v, pix |-> [i \in 1..Count(v) |-> (seed * i) % 256]]
ZeroImage(v) == [dims |-> v, pix |-> [i \in 1..Count(v) |-> 0]]
\* a default-constructed image, as a caller passes to readTo
DefaultImage == ZeroImage(<<1, 1, 1>>)
\* dimensions a handle is constructed with
InitDims == {v \in Dims : v[1] = 1 /\ v[2] = 1 /\ v[3] \in {1, MaxPixels}}
\* images a caller passes to setData: one pixel, a column and a row
Buffers == {Image(v, s) : v \in InitDims \cup {<<MaxPixels, 1, 1>>}, s \in Seeds}

\* itl2::Image::ensureSize: a buffer of another size is reallocated
imgEnsureSize(img, v) == IF img.dims = v THEN img ELSE ZeroImage(v)

(***************************************************************************)
(* Files and codecs (io/raw.h, io/sequence.h)                              *)
(***************************************************************************)
\* name of a temporary file: the image's name, a generation suffix and the
\* extension of the storage format
TempName(n, k, raw) == n \o <<"_", k>> \o (IF raw THEN RawExt ELSE Empty)

Files == Sources \cup OutFiles \cup {Empty}
            \cup {TempName(ImgName, k, r) : k \in {"1", "2"}, r \in BOOLEAN}

NoFile == [fmt |-> "none", dims |-> <<>>, pix |-> <<>>]

\* raw::write: the pixels in memory order, nothing else
rawWrite(d, img, file) == [d EXCEPT ![file] = [fmt |-> "raw", dims |-> <<>>, pix |-> img.pix]]

\* sequence::write: one slice file per z, which keeps the dimensions
sequenceWrite(d, img, file) == [d EXCEPT ![file] = [fmt |-> "sequence", dims |-> img.dims, pix |-> img.pix]]

\* raw::read: fills the image, whose size the caller has set, from the file
rawReadOk(d, img, file) == d[file].fmt = "raw" /\ Len(d[file].pix) = Count(img.dims)
rawRead(d, img, file) == [img EXCEPT !.pix = d[file].pix]

\* sequence::read: the slices give the dimensions and the pixels
sequenceReadOk(d, img, file) == d[file].fmt = "sequence"
sequenceRead(d, img, file) == [dims |-> d[file].dims, pix |-> d[file].pix]

\* a write that fails midway leaves part of the data in the file
tornWrite(d, file) == [d EXCEPT ![file] = [fmt |-> "torn", dims |-> <<>>, pix |-> <<>>]]

\* a worker executing a write-block instruction leaves block data in the file
blockWrite(d, file) == [d EXCEPT ![file] = [fmt |-> "blocks", dims |-> <<>>, pix |-> <<>>]]

(***************************************************************************)
(* DistributedImageBase                                                    *)
(***************************************************************************)
\* the object: one record field per data member
Self == [dims |-> dims, name |-> name, dataTypeStr |-> dataTypeStr,
         readSource |-> readSource, writeTarget |-> writeTarget,
         tempFilename1 |-> tempFilename1, tempFilename2 |-> tempFilename2,
         isNewImage |-> isNewImage]

Install(h) ==
    /\ dims' = h.dims
    /\ name' = h.name
    /\ dataTypeStr' = h.dataTypeStr
    /\ readSource' = h.readSource
    /\ writeTarget' = h.writeTarget
    /\ tempFilename1' = h.tempFilename1
    /\ tempFilename2' = h.tempFilename2
    /\ isNewImage' = h.isNewImage

isSavedToDisk_inverted(h) == h.isNewImage

isSavedToDisk(h) == ~h.isNewImage

dimensions(h) == h.dims

pixelCount(h) == h.dims[1] * h.dims[2] * h.dims[3]

currentReadSource(h) == h.readSource

currentWriteTarget_readSource(h) == h.readSource

currentWriteTarget(h) == h.writeTarget

isRaw_noDot(h) == endsWith(currentReadSource(h), <<"r", "a", "w">>)

isRaw(h) == endsWith(currentReadSource(h), RawExt)

isSequence(h) == ~isRaw(h)

savedToTemp_firstOnly(h) == currentReadSource(h) = h.tempFilename1

savedToTemp(h) ==
    currentReadSource(h) = h.tempFilename1 \/ currentReadSource(h) = h.tempFilename2

\* binds readSource; the image stops being new once a non-empty source is bound
setReadSource(h, filename) ==
    [h EXCEPT !.readSource = filename,
              !.isNewImage = IF filename # Empty THEN FALSE ELSE @]

\* raw temporary files for a raw source and for no source, sequence
\* directories otherwise; the first write goes to one of the two; an image
\* that has no source is new
createTempFilenames(h, first) ==
    LET raw == currentReadSource(h) = Empty \/ isRaw(h)
        t1 == TempName(h.name, "1", raw)
        t2 == TempName(h.name, "2", raw)
    IN [h EXCEPT !.tempFilename1 = t1, !.tempFilename2 = t2,
                 !.writeTarget = IF first = 1 THEN t1 ELSE t2,
                 !.isNewImage = IF currentReadSource(h) = Empty THEN TRUE ELSE @]

\* the object when the constructor's body starts: the member initialisers
\* have set dims, name and dataTypeStr, the strings are default-constructed,
\* and isNewImage, which has no initialiser, holds whatever the memory held
Uninitialised(n, v, type, garbage) ==
    [dims |-> v, name |-> n, dataTypeStr |-> type,
     readSource |-> Empty, writeTarget |-> Empty,
     tempFilename1 |-> Empty, tempFilename2 |-> Empty,
     isNewImage |-> garbage]

Construct_tempsFirst(n, v, type, sourceFilename, first, garbage) ==
    setReadSource(
        createTempFilenames(Uninitialised(n, v, type, garbage), first),
        sourceFilename)

\* DistributedImageBase(name, width, height, depth, dataTypeStr, sourceFilename)
Construct(n, v, type, sourceFilename, first, garbage) ==
    createTempFilenames(
        setReadSource(Uninitialised(n, v, type, garbage), sourceFilename),
        first)

writeComplete_andRotate(h) ==
    [setReadSource(h, h.writeTarget) EXCEPT
        !.writeTarget = IF @ = h.tempFilename1 THEN h.tempFilename2 ELSE h.tempFilename1]

writeComplete_keepsNew(h) == [h EXCEPT !.readSource = h.writeTarget]

writeComplete(h) == setReadSource(h, h.writeTarget)

newWriteTarget_swapsBoth(h) ==
    [h EXCEPT !.writeTarget = IF @ = h.tempFilename1 THEN h.tempFilename2
                              ELSE h.tempFilename1,
              !.readSource = h.writeTarget]

newWriteTarget_noSwap(h) == h

newWriteTarget_ontoReadSource(h) ==
    IF h.writeTarget = h.tempFilename1
    THEN [h EXCEPT !.writeTarget = h.tempFilename2]
    ELSE [h EXCEPT !.writeTarget = h.readSource]

newWriteTarget_alwaysFirst(h) == [h EXCEPT !.writeTarget = h.tempFilename1]

newWriteTarget(h) ==
    IF h.writeTarget = h.tempFilename1
    THEN [h EXCEPT !.writeTarget = h.tempFilename2]
    ELSE [h EXCEPT !.writeTarget = h.tempFilename1]

ensureSize(h, newDimensions) == [h EXCEPT !.dims = newDimensions]

\* the instruction a worker executes to load a block; without dataNeeded the
\* block is only created
emitReadBlock(h, filePos, blockSize, dataNeeded) ==
    IF dataNeeded
    THEN [cmd |-> "readblock", img |-> h.name, file |-> currentReadSource(h),
          filePos |-> filePos, blockSize |-> blockSize]
    ELSE [cmd |-> "newimage", img |-> h.name, file |-> Empty,
          filePos |-> filePos, blockSize |-> blockSize]

\* the instruction a worker executes to store a block
emitWriteBlock(h, filePos, imagePos, blockSize, outputFile) ==
    [cmd |-> "writeblock", img |-> h.name,
     file |-> IF outputFile = Null THEN currentWriteTarget(h) ELSE outputFile,
     filePos |-> filePos, blockSize |-> blockSize]

(***************************************************************************)
(* DistributedImage<pixel_t>                                               *)
(***************************************************************************)
\* readTo(img): the image after the call and the codec call made
readTo(h, d, img) ==
    LET sized == imgEnsureSize(img, dimensions(h))
    IN IF isSavedToDisk(h)
       THEN IF endsWith(currentReadSource(h), RawExt)
            THEN [call |-> "raw::read", file |-> currentReadSource(h),
                  ok |-> rawReadOk(d, sized, currentReadSource(h)),
                  img |-> IF rawReadOk(d, sized, currentReadSource(h))
                          THEN rawRead(d, sized, currentReadSource(h)) ELSE sized]
            ELSE [call |-> "sequence::read", file |-> currentReadSource(h),
                  ok |-> sequenceReadOk(d, sized, currentReadSource(h)),
                  img |-> IF sequenceReadOk(d, sized, currentReadSource(h))
                          THEN sequenceRead(d, sized, currentReadSource(h)) ELSE sized]
       ELSE [call |-> "none", file |-> Empty, ok |-> TRUE, img |-> sized]

setData_noComplete(h, d, img) ==
    LET sized == ensureSize(h, img.dims)
        written == IF endsWith(currentWriteTarget(sized), RawExt)
                   THEN rawWrite(d, img, currentWriteTarget(sized))
                   ELSE sequenceWrite(d, img, currentWriteTarget(sized))
    IN [self |-> sized, disk |-> written,
        call |-> IF endsWith(currentWriteTarget(sized), RawExt)
                 THEN "raw::write" ELSE "sequence::write",
        file |-> currentWriteTarget(sized)]

\* setData(img): the object and the files after the call
setData(h, d, img) ==
    LET sized == ensureSize(h, img.dims)
        written == IF endsWith(currentWriteTarget(sized), RawExt)
                   THEN rawWrite(d, img, currentWriteTarget(sized))
                   ELSE sequenceWrite(d, img, currentWriteTarget(sized))
    IN [self |-> writeComplete(sized), disk |-> written,
        call |-> IF endsWith(currentWriteTarget(sized), RawExt)
                 THEN "raw::write" ELSE "sequence::write",
        file |-> currentWriteTarget(sized)]

\* setData(img) when the codec's write throws: the call ends at the write,
\* which may have left part of the data in the file
setDataThrows(h, d, img, torn) ==
    LET sized == ensureSize(h, img.dims)
    IN [self |-> sized,
        disk |-> IF torn THEN tornWrite(d, currentWriteTarget(sized)) ELSE d,
        call |-> IF endsWith(currentWriteTarget(sized), RawExt)
                 THEN "raw::write" ELSE "sequence::write",
        file |-> currentWriteTarget(sized)]

(***************************************************************************)
(* Initial state: the object after construction, with or without a source  *)
(* file; a source file exists and holds an image of the given dimensions   *)
(***************************************************************************)
SourceData(file, img) ==
    IF endsWith(file, RawExt)
    THEN [fmt |-> "raw", dims |-> <<>>, pix |-> img.pix]
    ELSE [fmt |-> "sequence", dims |-> img.dims, pix |-> img.pix]

Init ==
    \E src \in Sources \cup {Empty}, v \in InitDims, first \in {1, 2},
       garbage \in BOOLEAN :
        LET h == Construct(ImgName, v, "uint8", src, first, garbage)
        IN /\ dims = h.dims
           /\ name = h.name
           /\ dataTypeStr = h.dataTypeStr
           /\ readSource = h.readSource
           /\ writeTarget = h.writeTarget
           /\ tempFilename1 = h.tempFilename1
           /\ tempFilename2 = h.tempFilename2
           /\ isNewImage = h.isNewImage
           /\ disk = [f \in Files |->
                        IF f = src /\ src # Empty
                        THEN SourceData(src, Image(v, 1)) ELSE NoFile]
           /\ inflight = {}
           /\ pc = "idle"
           /\ ctorSource = src
           /\ afterSetData = FALSE
           /\ lastOp = "construct"
           /\ ret = [call |-> "none"]

\* blocks of an image: its first and its last slice
Blocks(v) == {[pos |-> <<0, 0, z>>, size |-> <<v[1], v[2], 1>>] : z \in {0, v[3] - 1}}

Called(op) == lastOp' = op /\ afterSetData' = (lastOp = "setData")

(***************************************************************************)
(* Operations of the object, called in any order                           *)
(***************************************************************************)
DoNewWriteTarget ==
    /\ Install(newWriteTarget(Self))
    /\ Called("newWriteTarget")
    /\ ret' = [call |-> "none"]
    /\ UNCHANGED <<disk, ctorSource>>

DoEmitReadBlock(b, dataNeeded) ==
    /\ Install(Self)
    /\ Called("emitReadBlock")
    /\ ret' = [call |-> "emitReadBlock", dataNeeded |-> dataNeeded,
               instr |-> emitReadBlock(Self, b.pos, b.size, dataNeeded)]
    /\ UNCHANGED <<disk, ctorSource>>

DoEmitWriteBlock(b, outputFile) ==
    /\ Install(Self)
    /\ Called("emitWriteBlock")
    /\ ret' = [call |-> "emitWriteBlock", outputFile |-> outputFile,
               instr |-> emitWriteBlock(Self, b.pos, <<0, 0, 0>>, b.size, outputFile)]
    /\ UNCHANGED <<disk, ctorSource>>

DoWriteComplete ==
    /\ Install(writeComplete(Self))
    /\ Called("writeComplete")
    /\ ret' = [call |-> "none"]
    /\ UNCHANGED <<disk, ctorSource>>

DoSetData(img) ==
    LET r == setData(Self, disk, img)
    IN /\ Install(r.self)
       /\ disk' = r.disk
       /\ Called("setData")
       /\ ret' = [call |-> r.call, file |-> r.file, img |-> img]
       /\ UNCHANGED ctorSource

DoSetDataThrows(img, torn) ==
    LET r == setDataThrows(Self, disk, img, torn)
    IN /\ Install(r.self)
       /\ disk' = r.disk
       /\ Called("setDataThrows")
       /\ ret' = [call |-> r.call, file |-> r.file, img |-> img]
       /\ UNCHANGED ctorSource

DoReadTo ==
    /\ Install(Self)
    /\ Called("readTo")
    /\ ret' = readTo(Self, disk, DefaultImage)
    /\ UNCHANGED <<disk, ctorSource>>

\* the object exists until its destructor has run
Alive == lastOp # "destroy"

NewWriteTarget == Alive /\ DoNewWriteTarget /\ UNCHANGED <<inflight, pc>>

EmitReadBlock ==
    /\ Alive
    /\ \E b \in Blocks(dims), dataNeeded \in BOOLEAN :
          DoEmitReadBlock(b, dataNeeded) /\ UNCHANGED <<inflight, pc>>

EmitWriteBlock ==
    /\ Alive
    /\ \E b \in Blocks(dims), outputFile \in {Null, OutRaw} :
          DoEmitWriteBlock(b, outputFile) /\ UNCHANGED <<inflight, pc>>

WriteComplete == Alive /\ DoWriteComplete /\ UNCHANGED <<inflight, pc>>

SetReadSource ==
    /\ Alive
    /\ \E filename \in {Empty, RawSource, SeqSource} :
          /\ Install(setReadSource(Self, filename))
          /\ Called("setReadSource")
          /\ ret' = [call |-> "setReadSource", filename |-> filename]
          /\ UNCHANGED <<disk, ctorSource, inflight, pc>>

\* ensureSize(newDimensions), also through ensureSize(w, h, d)
EnsureSize ==
    /\ Alive
    /\ \E newDimensions \in Dims :
          /\ Install(ensureSize(Self, newDimensions))
          /\ Called("ensureSize")
          /\ ret' = [call |-> "none"]
          /\ UNCHANGED <<disk, ctorSource, inflight, pc>>

SetData ==
    /\ Alive
    /\ \E img \in Buffers : DoSetData(img) /\ UNCHANGED <<inflight, pc>>

ReadTo == Alive /\ DoReadTo /\ UNCHANGED <<inflight, pc>>

\* ~DistributedImageBase(): the two temporary files are deleted, files the
\* caller supplied are kept; nothing is called on the object afterwards
destroy(h, d) ==
    [f \in Files |-> IF f \in {h.tempFilename1, h.tempFilename2} THEN NoFile ELSE d[f]]

Destroy ==
    /\ Alive
    /\ disk' = destroy(Self, disk)
    /\ Install(Self)
    /\ Called("destroy")
    /\ ret' = [call |-> "none"]
    /\ UNCHANGED <<ctorSource, inflight, pc>>

Next ==
    \/ NewWriteTarget
    \/ EmitReadBlock
    \/ EmitWriteBlock
    \/ WriteComplete
    \/ SetReadSource
    \/ EnsureSize
    \/ SetData
    \/ ReadTo
    \/ Destroy

Spec == Init /\ [][Next]_vars

(***************************************************************************)
(* The documented protocol: a generation is newWriteTarget(), block         *)
(* instructions handed to workers, and writeComplete() once the workers     *)
(* have executed them all; between generations the whole image may be       *)
(* replaced with setData or read with readTo                                *)
(***************************************************************************)
\* positions of the caller: between generations ("idle", or "abandoned" when
\* the last generation was given up), and inside a generation before and
\* after its first write block ("gen", "writing"; "fresh", "freshWriting"
\* for the generation that follows an abandoned one)
Between == {"idle", "abandoned"}
Started == {"gen", "fresh"}
Writing == {"writing", "freshWriting"}

PNewWriteTarget ==
    /\ pc \in Between
    /\ DoNewWriteTarget
    /\ pc' = IF pc = "abandoned" THEN "fresh" ELSE "gen"
    /\ UNCHANGED inflight

PEmitReadBlock ==
    /\ pc \in Started \cup Writing
    /\ Cardinality(inflight) < MaxInFlight
    /\ \E b \in Blocks(dims), dataNeeded \in BOOLEAN :
          /\ DoEmitReadBlock(b, dataNeeded)
          /\ inflight' = inflight \cup {ret'.instr}
    /\ UNCHANGED pc

PEmitWriteBlock ==
    /\ pc \in Started \cup Writing
    /\ Cardinality(inflight) < MaxInFlight
    /\ \E b \in Blocks(dims) :
          /\ DoEmitWriteBlock(b, Null)
          /\ inflight' = inflight \cup {ret'.instr}
    /\ pc' = IF pc \in {"fresh", "freshWriting"} THEN "freshWriting" ELSE "writing"

\* a worker executes one of the instructions in flight
Worker ==
    \E i \in inflight :
        /\ inflight' = inflight \ {i}
        /\ disk' = IF i.cmd = "writeblock" THEN blockWrite(disk, i.file) ELSE disk
        /\ Install(Self)
        /\ Called("worker")
        /\ ret' = [call |-> "worker", instr |-> i]
        /\ UNCHANGED <<pc, ctorSource>>

PWriteComplete ==
    /\ pc \in Writing
    /\ inflight = {}
    /\ DoWriteComplete
    /\ pc' = "idle"
    /\ UNCHANGED inflight

PSetData ==
    /\ pc \in Between
    /\ \E img \in Buffers : DoSetData(img)
    /\ pc' = "idle"
    /\ UNCHANGED inflight

PReadTo ==
    /\ pc \in Between
    /\ DoReadTo
    /\ UNCHANGED <<inflight, pc>>

NextProtocol ==
    \/ PNewWriteTarget
    \/ PEmitReadBlock
    \/ PEmitWriteBlock
    \/ Worker
    \/ PWriteComplete
    \/ PSetData
    \/ PReadTo

SpecProtocol == Init /\ [][NextProtocol]_vars

(***************************************************************************)
(* The protocol with abandoned generations: the caller may give a          *)
(* generation up without writeComplete()                                   *)
(***************************************************************************)
\* the caller gives the generation up: no writeComplete()
Abandon ==
    /\ pc \in Started \cup Writing
    /\ inflight = {}
    /\ Install(Self)
    /\ Called("abandon")
    /\ ret' = [call |-> "none"]
    /\ pc' = "abandoned"
    /\ UNCHANGED <<disk, ctorSource, inflight>>

NextAbandon ==
    \/ PNewWriteTarget
    \/ PEmitReadBlock
    \/ PEmitWriteBlock
    \/ Worker
    \/ PWriteComplete
    \/ PSetData
    \/ PReadTo
    \/ Abandon

SpecAbandon == Init /\ [][NextAbandon]_vars

(***************************************************************************)
(* The whole-image path: setData, whose write may throw, readTo and        *)
(* newWriteTarget in any order                                             *)
(***************************************************************************)
SetDataThrows ==
    /\ Alive
    /\ \E img \in Buffers, torn \in BOOLEAN :
          DoSetDataThrows(img, torn) /\ UNCHANGED <<inflight, pc>>

NextWhole ==
    \/ NewWriteTarget
    \/ SetData
    \/ SetDataThrows
    \/ ReadTo

SpecWhole == Init /\ [][NextWhole]_vars

(***************************************************************************)
(* Properties                                                              *)
(***************************************************************************)
Temps == {tempFilename1, tempFilename2}
OtherTemp(f) == IF f = tempFilename1 THEN tempFilename2 ELSE tempFilename1
InGeneration == pc \in Started \cup Writing

\* C1: under the protocol, in every generation the file that read-block
\* instructions reference differs from the file that write-block
\* instructions target, for the handle and for every pair of instructions
\* that workers may be executing at the same time.
C1_ReadAndWriteFilesDiffer ==
    /\ InGeneration => readSource # writeTarget
    /\ \A r \in inflight, w \in inflight :
          (r.cmd = "readblock" /\ w.cmd = "writeblock") => r.file # w.file

C1_Witness ==
    /\ pc \in Writing
    /\ savedToTemp(Self)
    /\ \E r \in inflight, w \in inflight :
          /\ r.cmd = "readblock" /\ r.file = readSource
          /\ w.cmd = "writeblock" /\ w.file = writeTarget

\* C2: after construction and under any sequence of calls, writeTarget is
\* one of tempFilename1 and tempFilename2: never empty, never a file the
\* caller supplied.
C2_WriteTargetIsTemp ==
    /\ writeTarget \in Temps
    /\ writeTarget # Empty
    /\ writeTarget \notin Sources \cup OutFiles

C2_Witness ==
    /\ lastOp = "newWriteTarget"
    /\ readSource \in Sources
    /\ ~isNewImage
    /\ writeTarget = tempFilename2

\* C3: after every commit (writeComplete(), also the one setData makes),
\* writeTarget is the temp slot other than the one readSource held just
\* before the commit.
C3_CommitTargetsComplement ==
    [][(lastOp' \in {"writeComplete", "setData"} /\ readSource \in Temps)
          => writeTarget' = OtherTemp(readSource)]_vars

\* C4: when setData is called twice in sequence, the file the second call
\* writes is not the file readSource pointed to when the second call
\* started.
C4_SecondSetDataSparesReadSource ==
    [][(lastOp = "setData" /\ lastOp' = "setData") => ret'.file # readSource]_vars

\* C5: setData(buf) directly followed by readTo(out) gives out = buf, in
\* dimensions and in every pixel, and readTo reads the file setData wrote;
\* for raw files and for sequence directories.
C5_RoundTrip ==
    [][(lastOp = "setData" /\ lastOp' = "readTo")
          => /\ ret'.ok
             /\ ret'.file = ret.file
             /\ ret'.call = (IF ret.call = "raw::write" THEN "raw::read" ELSE "sequence::read")
             /\ ret'.img = ret.img]_vars

C5_Witness ==
    /\ lastOp = "readTo"
    /\ afterSetData
    /\ ctorSource = Empty
    /\ ret.call = "raw::read"
    /\ Count(ret.img.dims) = MaxPixels
    /\ ret.img = Image(ret.img.dims, 1)

\* C6: isSavedToDisk() is the negation of isNewImage; it is false after
\* construction without a source, is not changed by emitting instructions,
\* is true after a completed write (setData or writeComplete()), and once
\* true it stays true.
C6_SavedToDisk ==
    /\ (ctorSource = Empty => ~isSavedToDisk(Self))
    /\ [][/\ isSavedToDisk(Self)' = ~isNewImage'
          /\ lastOp' \in {"emitReadBlock", "emitWriteBlock", "newWriteTarget"}
                => isSavedToDisk(Self)' = isSavedToDisk(Self)
          /\ lastOp' \in {"writeComplete", "setData"} => isSavedToDisk(Self)'
          /\ isSavedToDisk(Self) => isSavedToDisk(Self)']_vars

C6_Witness ==
    /\ ctorSource = Empty
    /\ lastOp = "writeComplete"
    /\ isSavedToDisk(Self)
    /\ readSource = writeTarget
    /\ \A f \in Files : disk[f] = NoFile

\* C7: savedToTemp() holds exactly when readSource is tempFilename1 or
\* tempFilename2; it is false after construction with a source file and
\* true after any writeComplete().
C7_SavedToTemp ==
    /\ savedToTemp(Self) <=> readSource \in Temps
    /\ (lastOp = "construct" /\ ctorSource # Empty) => ~savedToTemp(Self)
    /\ lastOp \in {"writeComplete", "setData"} => savedToTemp(Self)

C7_Witness ==
    /\ ctorSource # Empty
    /\ lastOp = "writeComplete"
    /\ readSource = tempFilename2
    /\ savedToTemp(Self)

\* C8: newWriteTarget() moves writeTarget to the other temp slot, a second
\* call right after it restores the original writeTarget, and readSource,
\* isNewImage and the dimensions are unchanged.
C8_NewWriteTargetInvolution ==
    [][lastOp' = "newWriteTarget"
          => /\ writeTarget' = OtherTemp(writeTarget)
             /\ writeTarget' # writeTarget
             /\ newWriteTarget(Self').writeTarget = writeTarget
             /\ newWriteTarget(Self') = Self
             /\ readSource' = readSource
             /\ isNewImage' = isNewImage
             /\ dims' = dims]_vars

C8_Witness ==
    /\ lastOp = "newWriteTarget"
    /\ writeTarget = tempFilename1
    /\ readSource = tempFilename2
    /\ newWriteTarget(newWriteTarget(Self)) = Self

\* C9: writeComplete() sets readSource to the writeTarget of the call and
\* leaves writeTarget, the temp names, the name and the dimensions as they
\* were.
C9_WriteCompleteFrame ==
    [][lastOp' = "writeComplete"
          => /\ readSource' = writeTarget
             /\ writeTarget' = writeTarget
             /\ tempFilename1' = tempFilename1
             /\ tempFilename2' = tempFilename2
             /\ name' = name
             /\ dims' = dims]_vars

C9_Witness ==
    /\ lastOp = "writeComplete"
    /\ ctorSource \in Sources
    /\ readSource = writeTarget
    /\ readSource = tempFilename2

\* C10: emitReadBlock changes nothing of the handle; emitWriteBlock leaves
\* readSource and writeTarget unchanged, and its instruction targets
\* outputFile when that is given and the current writeTarget when it is
\* null.
C10_EmitFrame ==
    [][/\ lastOp' = "emitReadBlock" => (Self' = Self /\ disk' = disk)
       /\ lastOp' = "emitWriteBlock"
             => /\ readSource' = readSource
                /\ isNewImage' = isNewImage
                /\ writeTarget' = writeTarget
                /\ ret'.outputFile # Null => ret'.instr.file = ret'.outputFile
                /\ ret'.outputFile = Null => ret'.instr.file = writeTarget]_vars

C10_Witness ==
    /\ lastOp = "emitWriteBlock"
    /\ ret.outputFile = Null
    /\ ret.instr.file = tempFilename2
    /\ readSource = tempFilename1

C10_WitnessOutputFile ==
    /\ lastOp = "emitWriteBlock"
    /\ ret.outputFile = OutRaw
    /\ ret.instr.file = OutRaw
    /\ writeTarget \in Temps

\* C11: when the write inside setData throws, readSource and
\* isSavedToDisk() are what they were before the call, and the generation
\* that was readable before the call stays the readable one: the file
\* readSource names holds what it held before the call.
C11_FailedSetDataKeepsReadSource ==
    [][lastOp' = "setDataThrows"
          => /\ readSource' = readSource
             /\ isSavedToDisk(Self)' = isSavedToDisk(Self)
             /\ isSavedToDisk(Self) => disk'[readSource] = disk[readSource]]_vars

\* a failed setData has torn the file readSource names
C11_Witness ==
    /\ lastOp = "setDataThrows"
    /\ isSavedToDisk(Self)
    /\ readSource \in Temps
    /\ writeTarget = readSource
    /\ disk[readSource].fmt = "torn"
    /\ ~readTo(Self, disk, DefaultImage).ok

\* C12: a generation that is started, has write blocks emitted and executed
\* and is given up without writeComplete() changes neither readSource nor
\* isSavedToDisk(): no step other than a commit changes them, and every
\* read block emitted on the way references that readSource.
C12_AbandonedGenerationKeepsReaders ==
    [][lastOp' \notin {"writeComplete", "setData"}
          => /\ readSource' = readSource
             /\ isSavedToDisk(Self)' = isSavedToDisk(Self)
             /\ (lastOp' = "emitReadBlock" /\ ret'.dataNeeded)
                   => ret'.instr.file = readSource]_vars

C12_Witness ==
    /\ lastOp = "abandon"
    /\ pc = "abandoned"
    /\ isSavedToDisk(Self)
    /\ readSource \in Temps
    /\ writeTarget # readSource
    /\ disk[writeTarget].fmt = "blocks"
    /\ disk[readSource].fmt = "raw"

\* C13: from the same handle state, setData(buf) and a block generation
\* (newWriteTarget(), write blocks, writeComplete()) end with the same
\* readSource, writeTarget and isSavedToDisk().
C13_SetDataEqualsBlockGeneration ==
    pc \in Between =>
        \A img \in Buffers :
            LET whole == setData(Self, disk, img).self
                blocks == writeComplete(newWriteTarget(Self))
            IN /\ whole.readSource = blocks.readSource
               /\ whole.writeTarget = blocks.writeTarget
               /\ isSavedToDisk(whole) = isSavedToDisk(blocks)

\* the last four characters of a name are ".raw"
EndsDotRaw(str) ==
    /\ Len(str) >= 4
    /\ str[Len(str) - 3] = "."
    /\ str[Len(str) - 2] = "r"
    /\ str[Len(str) - 1] = "a"
    /\ str[Len(str)] = "w"

\* C14: exactly one of isRaw() and isSequence() holds; isRaw() holds exactly
\* when readSource ends with ".raw"; a handle constructed on a raw file is
\* raw and one constructed on a sequence is a sequence.
C14_RawOrSequence ==
    /\ isRaw(Self) # isSequence(Self)
    /\ isRaw(Self) <=> EndsDotRaw(readSource)
    /\ (lastOp = "construct" /\ ctorSource = RawSource) => isRaw(Self)
    /\ (lastOp = "construct" /\ ctorSource \in {SeqSource, SeqSourceRaw})
          => isSequence(Self)

C14_Witness ==
    /\ lastOp = "construct"
    /\ ctorSource = SeqSourceRaw
    /\ isSequence(Self)
    /\ ~isRaw(Self)

\* C15: both temp names have the format of the constructor's source (raw
\* for a raw source and for no source, sequence otherwise), and through
\* newWriteTarget(), writeComplete() and setData() isRaw() keeps the value
\* it had at construction on a source.
C15_FormatStable ==
    LET raw == ctorSource = Empty \/ EndsDotRaw(ctorSource)
    IN /\ EndsDotRaw(tempFilename1) = raw
       /\ EndsDotRaw(tempFilename2) = raw
       /\ ctorSource # Empty => isRaw(Self) = EndsDotRaw(ctorSource)
       /\ (ctorSource = Empty /\ isSavedToDisk(Self)) => isRaw(Self)

C15_Witness ==
    /\ ctorSource = SeqSourceRaw
    /\ lastOp = "writeComplete"
    /\ readSource = tempFilename1
    /\ isSequence(Self)
    /\ disk[tempFilename2].fmt = "sequence"

\* C16: whenever readSource is one of the temp files, writeTarget differs
\* from readSource right after a newWriteTarget() call.
C16_NewWriteTargetAvoidsReadSource ==
    (lastOp = "newWriteTarget" /\ readSource \in Temps) => writeTarget # readSource

\* C17: in the generation started by newWriteTarget() after an abandoned
\* generation, write-block instructions target a file other than
\* readSource.
C17_GenerationAfterAbandonedIsSafe ==
    (pc = "freshWriting" /\ lastOp = "emitWriteBlock") => ret.instr.file # readSource

\* C18: setReadSource(path) binds readSource to path, clears isNewImage
\* exactly when path is not empty, and leaves writeTarget and the temp names
\* alone; after construction the handle is new exactly when it has no
\* source, and after writeComplete() it is not new.
C18_SetReadSource ==
    /\ readSource = ctorSource
    /\ isNewImage <=> ctorSource = Empty
    /\ isSavedToDisk(Self) <=> ctorSource # Empty
    /\ [][/\ lastOp' = "setReadSource"
                => /\ readSource' = ret'.filename
                   /\ isNewImage' = (IF ret'.filename # Empty THEN FALSE ELSE isNewImage)
                   /\ writeTarget' = writeTarget
                   /\ tempFilename1' = tempFilename1
                   /\ tempFilename2' = tempFilename2
          /\ lastOp' = "writeComplete" => (~isNewImage' /\ readSource' = writeTarget)]_vars

C18_Witness ==
    /\ lastOp = "setReadSource"
    /\ ret.filename = Empty
    /\ readSource = Empty
    /\ ctorSource = Empty
    /\ isNewImage

C18_WitnessBound ==
    /\ lastOp = "setReadSource"
    /\ ret.filename = SeqSource
    /\ ctorSource = Empty
    /\ ~isNewImage

\* C19: in every reachable state readTo gives the buffer the dimensions of
\* the image and calls a codec read exactly when isSavedToDisk(); the file
\* it reads is readSource, which is not empty, holds data, and is the
\* constructor's source or a temp file that a completed write promoted.
C19_ReadToReadsExistingData ==
    lastOp = "readTo"
        => /\ ret.img.dims = dims
           /\ ret.call # "none" <=> isSavedToDisk(Self)
           /\ ret.call # "none"
                 => /\ ret.file = readSource
                    /\ readSource # Empty
                    /\ disk[readSource] # NoFile
                    /\ readSource = ctorSource \/ readSource \in Temps

\* readTo has read a temp file that nothing wrote
C19_Witness ==
    /\ lastOp = "readTo"
    /\ ctorSource = Empty
    /\ isSavedToDisk(Self)
    /\ ret.call = "raw::read"
    /\ ret.file = readSource
    /\ readSource \in Temps
    /\ disk[readSource] = NoFile
    /\ ~ret.ok

====
